---- MODULE Spec2Model ----
(***************************************************************************)
(* encode_patch: compress -> [AES] -> base64 -> chunk files, and back.     *)
(* Bytes are sequences over 0..255, text is a sequence of code points.     *)
(* The chunk directory, the chunk files of one base name and the restored  *)
(* output file are the durable state; every operation is one atomic step.  *)
(***************************************************************************)
EXTENDS Integers, Sequences, FiniteSets, TLC

VARIABLES chunks, dirs, outFile, linesep, last, steps, writer, reader

vars == <<chunks, dirs, outFile, linesep, last, steps, writer, reader>>

(***************************************************************************)
(* Bounds of the exploration.                                              *)
(***************************************************************************)
MaxSteps == 3
MaxPipeSteps == 2
MaxCipherSteps == 2
MaxTextLen == 4
MaxEntrySteps == 3
MaxCliSteps == 3

(***************************************************************************)
(* Generic helpers on sequences and fallible results.                      *)
(***************************************************************************)
Ok(v) == [ok |-> TRUE, val |-> v, err |-> "none"]
Raise(e) == [ok |-> FALSE, val |-> <<>>, err |-> e]

Min(a, b) == IF a < b THEN a ELSE b

\* Python slice seq[lo:hi] with 0-based bounds, lo >= 0.
Slice(seq, lo, hi) ==
    LET h == Min(hi, Len(seq))
    IN  IF lo >= h THEN <<>> ELSE [k \in 1..(h - lo) |-> seq[lo + k]]

RECURSIVE SumSeq(_)
SumSeq(seq) == IF seq = <<>> THEN 0 ELSE Head(seq) + SumSeq(Tail(seq))

RECURSIVE Concat(_, _, _)
\* concatenation f[lo] \o f[lo+1] \o ... \o f[hi-1]
Concat(f, lo, hi) == IF lo >= hi THEN <<>> ELSE f[lo] \o Concat(f, lo + 1, hi)

\* Bitwise exclusive or of two bytes.
RECURSIVE XorBits(_, _, _)
XorBits(a, b, n) ==
    IF n = 0 THEN 0
    ELSE ((a + b) % 2) + 2 * XorBits(a \div 2, b \div 2, n - 1)

Xor(a, b) == XorBits(a, b, 8)

(***************************************************************************)
(* UTF-8: str.encode('utf-8') and bytes.decode('utf-8') (strict).          *)
(***************************************************************************)
Utf8EncodeChar(c) ==
    IF c < 128 THEN <<c>>
    ELSE IF c < 2048 THEN <<192 + (c \div 64), 128 + (c % 64)>>
    ELSE IF c < 65536
         THEN <<224 + (c \div 4096), 128 + ((c \div 64) % 64), 128 + (c % 64)>>
         ELSE <<240 + (c \div 262144), 128 + ((c \div 4096) % 64),
                128 + ((c \div 64) % 64), 128 + (c % 64)>>

RECURSIVE Utf8Encode(_)
Utf8Encode(s) ==
    IF s = <<>> THEN <<>> ELSE Utf8EncodeChar(Head(s)) \o Utf8Encode(Tail(s))

IsCont(b, i) == i <= Len(b) /\ b[i] >= 128 /\ b[i] <= 191

RECURSIVE Utf8DecodeFrom(_, _, _)
Utf8DecodeFrom(b, i, acc) ==
    IF i > Len(b) THEN Ok(acc)
    ELSE LET c == b[i] IN
         IF c < 128 THEN Utf8DecodeFrom(b, i + 1, Append(acc, c))
         ELSE IF c >= 194 /\ c <= 223 /\ IsCont(b, i + 1)
              THEN Utf8DecodeFrom(b, i + 2,
                       Append(acc, (c - 192) * 64 + (b[i + 1] - 128)))
         ELSE IF c >= 224 /\ c <= 239 /\ IsCont(b, i + 1) /\ IsCont(b, i + 2)
                 /\ (c = 224 => b[i + 1] >= 160)
                 /\ (c = 237 => b[i + 1] <= 159)
              THEN Utf8DecodeFrom(b, i + 3,
                       Append(acc, (c - 224) * 4096 + (b[i + 1] - 128) * 64
                                   + (b[i + 2] - 128)))
         ELSE IF c >= 240 /\ c <= 244 /\ IsCont(b, i + 1) /\ IsCont(b, i + 2)
                 /\ IsCont(b, i + 3)
                 /\ (c = 240 => b[i + 1] >= 144)
                 /\ (c = 244 => b[i + 1] <= 143)
              THEN Utf8DecodeFrom(b, i + 4,
                       Append(acc, (c - 240) * 262144 + (b[i + 1] - 128) * 4096
                                   + (b[i + 2] - 128) * 64 + (b[i + 3] - 128)))
         ELSE Raise("UnicodeDecodeError")

Utf8Decode(b) == Utf8DecodeFrom(b, 1, <<>>)

(***************************************************************************)
(* base64.b64encode / base64.b64decode (non-strict binascii.a2b_base64).   *)
(***************************************************************************)
PadChar == 61

B64Char(v) ==
    IF v < 26 THEN 65 + v
    ELSE IF v < 52 THEN 97 + (v - 26)
    ELSE IF v < 62 THEN 48 + (v - 52)
    ELSE IF v = 62 THEN 43 ELSE 47

\* table_a2b_base64: 64 stands for "not in the alphabet".
B64Value(c) ==
    IF c >= 65 /\ c <= 90 THEN c - 65
    ELSE IF c >= 97 /\ c <= 122 THEN c - 97 + 26
    ELSE IF c >= 48 /\ c <= 57 THEN c - 48 + 52
    ELSE IF c = 43 THEN 62
    ELSE IF c = 47 THEN 63 ELSE 64

RECURSIVE b64encode(_)
b64encode(b) ==
    IF Len(b) = 0 THEN <<>>
    ELSE IF Len(b) = 1
         THEN <<B64Char(b[1] \div 4), B64Char((b[1] % 4) * 16), PadChar, PadChar>>
    ELSE IF Len(b) = 2
         THEN <<B64Char(b[1] \div 4),
                B64Char((b[1] % 4) * 16 + (b[2] \div 16)),
                B64Char((b[2] % 16) * 4), PadChar>>
    ELSE <<B64Char(b[1] \div 4),
           B64Char((b[1] % 4) * 16 + (b[2] \div 16)),
           B64Char((b[2] % 16) * 4 + (b[3] \div 64)),
           B64Char(b[3] % 64)>> \o b64encode(Slice(b, 3, Len(b)))

RECURSIVE A2bBase64(_, _, _, _, _, _)
A2bBase64(s, i, quad_pos, leftchar, pads, out) ==
    IF i > Len(s)
    THEN IF quad_pos = 0 THEN Ok(out) ELSE Raise("binascii.Error")
    ELSE IF s[i] = PadChar
         THEN IF quad_pos >= 2 /\ quad_pos + pads + 1 >= 4
              THEN Ok(out)
              ELSE A2bBase64(s, i + 1, quad_pos, leftchar,
                             IF quad_pos >= 2 THEN pads + 1 ELSE pads, out)
    ELSE LET v == B64Value(s[i]) IN
         IF v >= 64 THEN A2bBase64(s, i + 1, quad_pos, leftchar, pads, out)
         ELSE IF quad_pos = 0 THEN A2bBase64(s, i + 1, 1, v, 0, out)
         ELSE IF quad_pos = 1
              THEN A2bBase64(s, i + 1, 2, v % 16, 0,
                             Append(out, leftchar * 4 + (v \div 16)))
         ELSE IF quad_pos = 2
              THEN A2bBase64(s, i + 1, 3, v % 4, 0,
                             Append(out, leftchar * 16 + (v \div 4)))
         ELSE A2bBase64(s, i + 1, 0, 0, 0, Append(out, leftchar * 64 + v))

b64decode(s) == A2bBase64(s, 1, 0, 0, 0, <<>>)

(***************************************************************************)
(* Compressor.  The three libraries are modelled by their container        *)
(* format: a header that identifies the algorithm (and, for zlib, the      *)
(* level class), the payload, and a trailer with a checksum of the         *)
(* payload.  Levels outside the library's range raise the library's error. *)
(***************************************************************************)
AdlerBase == 65521

RECURSIVE AdlerA(_)
AdlerA(d) == IF d = <<>> THEN 1 ELSE (AdlerA(SubSeq(d, 1, Len(d) - 1)) + d[Len(d)]) % AdlerBase

RECURSIVE AdlerB(_)
AdlerB(d) == IF d = <<>> THEN 0 ELSE (AdlerB(SubSeq(d, 1, Len(d) - 1)) + AdlerA(d)) % AdlerBase

Adler32(d) ==
    <<AdlerB(d) \div 256, AdlerB(d) % 256, AdlerA(d) \div 256, AdlerA(d) % 256>>

ZlibFlg(level) ==
    IF level \in {0, 1} THEN 1
    ELSE IF level \in 2..5 THEN 94
    ELSE IF level \in {-1, 6} THEN 156 ELSE 218

zlib_compress(data, level) ==
    IF level < -1 \/ level > 9 THEN Raise("zlib.error")
    ELSE Ok(<<120, ZlibFlg(level)>> \o data \o Adler32(data))

zlib_decompress(blob) ==
    IF Len(blob) < 6 THEN Raise("zlib.error")
    ELSE IF blob[1] # 120 \/ (blob[1] * 256 + blob[2]) % 31 # 0
         THEN Raise("zlib.error")
    ELSE LET data == Slice(blob, 2, Len(blob) - 4)
         IN  IF Slice(blob, Len(blob) - 4, Len(blob)) = Adler32(data)
             THEN Ok(data) ELSE Raise("zlib.error")

XzMagic == <<253, 55, 122, 88, 90, 0>>
XzFooter == <<89, 90>>

lzma_compress(data, preset) ==
    IF preset < 0 \/ preset > 9 THEN Raise("LZMAError")
    ELSE Ok(XzMagic \o data \o <<SumSeq(data) % 256>> \o XzFooter)

lzma_decompress(blob) ==
    IF Len(blob) < 9 THEN Raise("LZMAError")
    ELSE IF Slice(blob, 0, 6) # XzMagic THEN Raise("LZMAError")
    ELSE LET data == Slice(blob, 6, Len(blob) - 3)
         IN  IF Slice(blob, Len(blob) - 3, Len(blob))
                  = <<SumSeq(data) % 256>> \o XzFooter
             THEN Ok(data) ELSE Raise("LZMAError")

BrotliWindow == 11
BrotliLast == 3

brotli_compress(data, quality) ==
    IF quality < 0 \/ quality > 11 THEN Raise("brotli.error")
    ELSE Ok(<<BrotliWindow, Len(data) % 256>> \o data \o <<BrotliLast>>)

brotli_decompress(blob) ==
    IF Len(blob) < 3 THEN Raise("brotli.error")
    ELSE IF blob[1] # BrotliWindow \/ blob[2] # (Len(blob) - 3) % 256
            \/ blob[Len(blob)] # BrotliLast
         THEN Raise("brotli.error")
    ELSE Ok(Slice(blob, 2, Len(blob) - 1))

(***************************************************************************)
(* Cipher.  AES-256 is modelled by a keyed byte-wise permutation of the    *)
(* 16-byte block; the modes (CTR, OFB, CBC with PKCS#7) are modelled as    *)
(* the library runs them on top of the block function.                     *)
(***************************************************************************)
BlockSize == 16
KeySize == 32

CRYPTOGRAPHY_AVAILABLE == TRUE

\* the key is padded with zero bytes but never cut
KeyBytesNoCut(key) ==
    LET kb == Utf8Encode(key)
    IN  IF Len(kb) < KeySize
        THEN kb \o [i \in 1..(KeySize - Len(kb)) |-> 0]
        ELSE kb

\* key.encode('utf-8'), then ljust(32, b'\x00') or [:32]
KeyBytes(key) ==
    LET kb == Utf8Encode(key)
    IN  IF Len(kb) < KeySize
        THEN kb \o [i \in 1..(KeySize - Len(kb)) |-> 0]
        ELSE IF Len(kb) > KeySize THEN Slice(kb, 0, KeySize) ELSE kb

\* the same coercion as written in aes_decrypt
DecryptKeyBytes(key) ==
    LET key_bytes == Utf8Encode(key)
    IN  IF Len(key_bytes) < 32
        THEN key_bytes \o [i \in 1..(32 - Len(key_bytes)) |-> 0]
        ELSE IF Len(key_bytes) > 32 THEN Slice(key_bytes, 0, 32) ELSE key_bytes

RECURSIVE KeySchedule(_, _)
KeySchedule(kb, i) ==
    IF i > Len(kb) THEN 0 ELSE (i * kb[i] + KeySchedule(kb, i + 1)) % 256

AesEncryptBlock(kb, B) ==
    LET k == KeySchedule(kb, 1)
    IN  [i \in 1..BlockSize |-> (B[i] + k + 17 * i) % 256]

AesDecryptBlock(kb, B) ==
    LET k == KeySchedule(kb, 1)
    IN  [i \in 1..BlockSize |-> (B[i] + 512 - ((k + 17 * i) % 256)) % 256]

\* big-endian increment of the 128-bit counter block
RECURSIVE IncBlock(_, _)
IncBlock(B, i) ==
    IF i = 0 THEN B
    ELSE IF B[i] < 255 THEN [B EXCEPT ![i] = B[i] + 1]
    ELSE IncBlock([B EXCEPT ![i] = 0], i - 1)

XorSeq(a, b) == [i \in 1..Len(a) |-> Xor(a[i], b[i])]

RECURSIVE CtrStream(_, _, _)
CtrStream(kb, counter, n) ==
    IF n <= 0 THEN <<>>
    ELSE AesEncryptBlock(kb, counter)
         \o CtrStream(kb, IncBlock(counter, BlockSize), n - BlockSize)

RECURSIVE OfbStream(_, _, _)
OfbStream(kb, fb, n) ==
    IF n <= 0 THEN <<>>
    ELSE LET o == AesEncryptBlock(kb, fb)
         IN  o \o OfbStream(kb, o, n - BlockSize)

CtrCrypt(kb, nonce, data) == XorSeq(data, CtrStream(kb, nonce, Len(data)))
OfbCrypt(kb, iv, data) == XorSeq(data, OfbStream(kb, iv, Len(data)))

\* a padder that adds nothing to data already on the block boundary
Pkcs7PadAligned(data) ==
    LET n == (BlockSize - (Len(data) % BlockSize)) % BlockSize
    IN  data \o [i \in 1..n |-> n]

Pkcs7Pad(data) ==
    LET n == BlockSize - (Len(data) % BlockSize)
    IN  data \o [i \in 1..n |-> n]

Pkcs7Unpad(padded) ==
    IF Len(padded) = 0 THEN Raise("ValueError: Invalid padding bytes.")
    ELSE LET n == padded[Len(padded)] IN
         IF n < 1 \/ n > BlockSize \/ n > Len(padded)
            \/ \E i \in (Len(padded) - n + 1)..Len(padded) : padded[i] # n
         THEN Raise("ValueError: Invalid padding bytes.")
         ELSE Ok(Slice(padded, 0, Len(padded) - n))

RECURSIVE CbcEncryptBlocks(_, _, _)
CbcEncryptBlocks(kb, prevBlock, padded) ==
    IF padded = <<>> THEN <<>>
    ELSE LET c == AesEncryptBlock(kb, XorSeq(Slice(padded, 0, BlockSize), prevBlock))
         IN  c \o CbcEncryptBlocks(kb, c, Slice(padded, BlockSize, Len(padded)))

RECURSIVE CbcDecryptBlocks(_, _, _)
CbcDecryptBlocks(kb, prevBlock, ct) ==
    IF ct = <<>> THEN <<>>
    ELSE LET c == Slice(ct, 0, BlockSize)
         IN  XorSeq(AesDecryptBlock(kb, c), prevBlock)
             \o CbcDecryptBlocks(kb, c, Slice(ct, BlockSize, Len(ct)))

aes_encrypt(data, key, mode, urandom) ==
    LET key_bytes == KeyBytes(key) IN
    IF mode = "ctr" THEN urandom \o CtrCrypt(key_bytes, urandom, data)
    ELSE IF mode = "ofb" THEN urandom \o OfbCrypt(key_bytes, urandom, data)
    ELSE urandom \o CbcEncryptBlocks(key_bytes, urandom, Pkcs7Pad(data))

\* One trial of aes_decrypt: the library raises TypeError when the IV/nonce
\* it is handed is not bytes-like (a str was passed as encrypted_data).
\* a counter mode that refuses data that is not a whole number of blocks
TryCTRWholeBlocks(type, kb, iv, content) ==
    IF type # "bytes" THEN Raise("TypeError: nonce must be bytes-like")
    ELSE IF Len(content) % BlockSize # 0
         THEN Raise("ValueError: data is not a multiple of the block length")
    ELSE Ok(CtrCrypt(kb, iv, content))

TryCTR(type, kb, iv, content) ==
    IF type # "bytes" THEN Raise("TypeError: nonce must be bytes-like")
    ELSE Ok(CtrCrypt(kb, iv, content))

TryCBC(type, kb, iv, content) ==
    IF type # "bytes" THEN Raise("TypeError: initialization_vector must be bytes-like")
    ELSE IF Len(content) % BlockSize # 0
         THEN Raise("ValueError: data is not a multiple of the block length")
    ELSE Pkcs7Unpad(CbcDecryptBlocks(kb, iv, content))

TryOFB(type, kb, iv, content) ==
    IF type # "bytes" THEN Raise("TypeError: initialization_vector must be bytes-like")
    ELSE Ok(OfbCrypt(kb, iv, content))

Attempt(mode, r) == [mode |-> mode, raised |-> ~r.ok, out |-> r.val, reason |-> r.err]

\* iv_or_nonce = encrypted_data[:16]; encrypted_content = encrypted_data[16:]
SplitIvKeepsIv(v) == [iv |-> Slice(v, 0, 16), content |-> v]

SplitIv(v) == [iv |-> Slice(v, 0, 16), content |-> Slice(v, 16, Len(v))]

\* the ValueError raised when the three trials have raised
DecryptionFailedDropsCbc(ctr, cbc, ofb) ==
    [ok |-> FALSE, val |-> <<>>, err |-> "ValueError: all modes failed",
     reasons |-> <<ctr.err, ofb.err>>,
     attempts |-> <<Attempt("ctr", ctr), Attempt("cbc", cbc), Attempt("ofb", ofb)>>]

DecryptionFailed(ctr, cbc, ofb) ==
    [ok |-> FALSE, val |-> <<>>, err |-> "ValueError: all modes failed",
     reasons |-> <<ctr.err, cbc.err, ofb.err>>,
     attempts |-> <<Attempt("ctr", ctr), Attempt("cbc", cbc), Attempt("ofb", ofb)>>]

Decrypted(val, attempts) ==
    [ok |-> TRUE, val |-> val, err |-> "none", reasons |-> <<>>, attempts |-> attempts]

\* the nested try/except of aes_decrypt, given the outcome of each trial
TrialsCbcFirst(ctr, cbc, ofb) ==
    IF cbc.ok THEN Decrypted(cbc.val, <<Attempt("cbc", cbc)>>)
    ELSE IF ctr.ok
    THEN Decrypted(ctr.val, <<Attempt("cbc", cbc), Attempt("ctr", ctr)>>)
    ELSE IF ofb.ok
    THEN Decrypted(ofb.val, <<Attempt("cbc", cbc), Attempt("ctr", ctr),
                              Attempt("ofb", ofb)>>)
    ELSE DecryptionFailed(ctr, cbc, ofb)

Trials(ctr, cbc, ofb) ==
    IF ctr.ok THEN Decrypted(ctr.val, <<Attempt("ctr", ctr)>>)
    ELSE IF cbc.ok
    THEN Decrypted(cbc.val, <<Attempt("ctr", ctr), Attempt("cbc", cbc)>>)
    ELSE IF ofb.ok
    THEN Decrypted(ofb.val, <<Attempt("ctr", ctr), Attempt("cbc", cbc),
                              Attempt("ofb", ofb)>>)
    ELSE DecryptionFailed(ctr, cbc, ofb)

DecryptTrials(ty, key_bytes, iv, content) ==
    Trials(TryCTR(ty, key_bytes, iv, content),
           TryCBC(ty, key_bytes, iv, content),
           TryOFB(ty, key_bytes, iv, content))

SplitAndTry(ty, p, key_bytes) == DecryptTrials(ty, key_bytes, p.iv, p.content)

\* encrypted_data is [type |-> "bytes" | "str", v |-> sequence]
\* the length of the data is not looked at before the trials
aes_decrypt_unchecked(encrypted_data, key) ==
    IF ~CRYPTOGRAPHY_AVAILABLE
    THEN [ok |-> FALSE, val |-> <<>>, err |-> "ImportError", reasons |-> <<>>,
          attempts |-> <<>>]
    ELSE SplitAndTry(encrypted_data.type, SplitIv(encrypted_data.v), DecryptKeyBytes(key))

aes_decrypt(encrypted_data, key) ==
    IF ~CRYPTOGRAPHY_AVAILABLE
    THEN [ok |-> FALSE, val |-> <<>>, err |-> "ImportError", reasons |-> <<>>,
          attempts |-> <<>>]
    ELSE IF Len(encrypted_data.v) < 16
    THEN [ok |-> FALSE, val |-> <<>>, err |-> "ValueError: too short",
          reasons |-> <<>>, attempts |-> <<>>]
    ELSE SplitAndTry(encrypted_data.type, SplitIv(encrypted_data.v), DecryptKeyBytes(key))

(***************************************************************************)
(* Chunker: save_encoded_string_in_chunks.  fs maps the indices of the     *)
(* existing files {base}{i}.txt to their text; ds is the set of existing   *)
(* directories; failAt is the index whose open() raises (NoFail: none).    *)
(***************************************************************************)
NoFail == -1
ChunkDir == "chunkdir"
OutDir == "outdir"
EmptyFs == [i \in {} |-> <<>>]

WriteFile(fs, i, text) == [j \in (DOMAIN fs) \cup {i} |-> IF j = i THEN text ELSE fs[j]]

\* for i in range(0, len(encoded_string), chunk_size): write piece, num_files += 1
RECURSIVE SaveLoopDropsTail(_, _, _, _, _, _)
SaveLoopDropsTail(es, chunk_size, i, num_files, fs, failAt) ==
    IF i + chunk_size > Len(es)
    THEN [ret |-> TRUE, chunks |-> fs, written |-> num_files]
    ELSE IF num_files = failAt
    THEN [ret |-> FALSE, chunks |-> fs, written |-> num_files]
    ELSE SaveLoopDropsTail(es, chunk_size, i + chunk_size, num_files + 1,
                  WriteFile(fs, num_files, Slice(es, i, i + chunk_size)), failAt)

RECURSIVE SaveLoopOverlaps(_, _, _, _, _, _)
SaveLoopOverlaps(es, chunk_size, i, num_files, fs, failAt) ==
    IF i >= Len(es)
    THEN [ret |-> TRUE, chunks |-> fs, written |-> num_files]
    ELSE IF num_files = failAt
    THEN [ret |-> FALSE, chunks |-> fs, written |-> num_files]
    ELSE SaveLoopOverlaps(es, chunk_size, i + chunk_size, num_files + 1,
                  WriteFile(fs, num_files, Slice(es, i, i + chunk_size + 1)), failAt)

\* a failed write removes the chunks the loop has written so far
RECURSIVE SaveLoopRollsBack(_, _, _, _, _, _)
SaveLoopRollsBack(es, chunk_size, i, num_files, fs, failAt) ==
    IF i >= Len(es)
    THEN [ret |-> TRUE, chunks |-> fs, written |-> num_files]
    ELSE IF num_files = failAt
    THEN [ret |-> FALSE,
          chunks |-> [j \in (DOMAIN fs) \ (0..(num_files - 1)) |-> fs[j]],
          written |-> num_files]
    ELSE SaveLoopRollsBack(es, chunk_size, i + chunk_size, num_files + 1,
                           WriteFile(fs, num_files, Slice(es, i, i + chunk_size)),
                           failAt)

RECURSIVE SaveLoop(_, _, _, _, _, _)
SaveLoop(es, chunk_size, i, num_files, fs, failAt) ==
    IF i >= Len(es)
    THEN [ret |-> TRUE, chunks |-> fs, written |-> num_files]
    ELSE IF num_files = failAt
    THEN [ret |-> FALSE, chunks |-> fs, written |-> num_files]
    ELSE SaveLoop(es, chunk_size, i + chunk_size, num_files + 1,
                  WriteFile(fs, num_files, Slice(es, i, i + chunk_size)), failAt)

\* if chunk_size == 0: chunk_size = len(encoded_string)
EffectiveChunkSizeOne(encoded_string, chunk_size) ==
    IF chunk_size = 0 THEN 1 ELSE chunk_size

EffectiveChunkSize(encoded_string, chunk_size) ==
    IF chunk_size = 0 THEN Len(encoded_string) ELSE chunk_size

\* the chunk files above the last written index are removed
SavedRemovesStale(w, ds) ==
    [ret |-> w.ret,
     chunks |-> [j \in (DOMAIN w.chunks) \cap (0..(w.written - 1)) |-> w.chunks[j]],
     dirs |-> ds \cup {ChunkDir},
     written |-> w.written, log |-> IF w.ret THEN "saved" ELSE "write error"]

\* result of the write loop, with the directory that was created before it
Saved(w, ds) ==
    [ret |-> w.ret, chunks |-> w.chunks, dirs |-> ds \cup {ChunkDir},
     written |-> w.written, log |-> IF w.ret THEN "saved" ELSE "write error"]

NotSaved(fs, ds, log) ==
    [ret |-> FALSE, chunks |-> fs, dirs |-> ds, written |-> 0, log |-> log]

SaveSizedMkdirFirst(encoded_string, chunk_size, fs, ds, failAt) ==
    IF chunk_size < 0
    THEN NotSaved(fs, ds \cup {ChunkDir}, "invalid chunk size")
    ELSE Saved(SaveLoop(encoded_string, chunk_size, 0, 0, fs, failAt), ds)

\* save_encoded_string_in_chunks after chunk_size == 0 has been replaced
SaveSized(encoded_string, chunk_size, fs, ds, failAt) ==
    IF chunk_size < 0
    THEN NotSaved(fs, ds, "invalid chunk size")
    ELSE Saved(SaveLoop(encoded_string, chunk_size, 0, 0, fs, failAt), ds)

save_encoded_string_in_chunks(encoded_string, chunk_size, fs, ds, failAt) ==
    IF encoded_string = <<>>
    THEN NotSaved(fs, ds, "no data")
    ELSE SaveSized(encoded_string, EffectiveChunkSize(encoded_string, chunk_size),
                   fs, ds, failAt)

(***************************************************************************)
(* compress_and_encode: file is [exists, bytes]; urandom is the value      *)
(* os.urandom(16) returns inside aes_encrypt.                              *)
(***************************************************************************)
Compress(algorithm, data, level) ==
    IF algorithm = "zlib" THEN zlib_compress(data, level)
    ELSE IF algorithm = "lzma" THEN lzma_compress(data, level)
    ELSE IF algorithm = "brotli" THEN brotli_compress(data, level)
    ELSE Raise("unsupported algorithm")

NotEncoded(log, stages) == [ok |-> FALSE, val |-> <<>>, log |-> log, stages |-> stages]

EncodeStages(encrypt) ==
    <<"compress">> \o (IF encrypt THEN <<"encrypt">> ELSE <<>>) \o <<"b64encode">>

\* the statistics are skipped, so nothing raises on an empty file
EncodeBlobNoRatio(file_bytes, compressed_data, encrypt) ==
    [ok |-> TRUE, val |-> b64encode(compressed_data), log |-> "encoded",
     stages |-> EncodeStages(encrypt)]

\* base64, then the statistics: final_size / original_size raises on an empty file
EncodeBlob(file_bytes, compressed_data, encrypt) ==
    IF Len(file_bytes) = 0
    THEN NotEncoded("ZeroDivisionError", EncodeStages(encrypt))
    ELSE [ok |-> TRUE, val |-> b64encode(compressed_data), log |-> "encoded",
          stages |-> EncodeStages(encrypt)]

\* the compressed blob is encrypted in cipher-block-chaining mode
EncryptCompressedCbc(file_bytes, c, encrypt, key, urandom) ==
    IF ~c.ok
    THEN NotEncoded(c.err, IF c.err = "unsupported algorithm" THEN <<>>
                           ELSE <<"compress">>)
    ELSE EncodeBlob(file_bytes,
                    IF encrypt THEN aes_encrypt(c.val, key, "cbc", urandom) ELSE c.val,
                    encrypt)

\* a compression failure is ignored and the pipeline goes on with no data
EncryptCompressedLenient(file_bytes, c, encrypt, key, urandom) ==
    EncodeBlob(file_bytes,
               IF encrypt THEN aes_encrypt(c.val, key, "ctr", urandom) ELSE c.val,
               encrypt)

EncryptCompressed(file_bytes, c, encrypt, key, urandom) ==
    IF ~c.ok
    THEN NotEncoded(c.err, IF c.err = "unsupported algorithm" THEN <<>>
                           ELSE <<"compress">>)
    ELSE EncodeBlob(file_bytes,
                    IF encrypt THEN aes_encrypt(c.val, key, "ctr", urandom) ELSE c.val,
                    encrypt)

compress_and_encode(file, compression_level, algorithm, encrypt, key, urandom) ==
    IF ~file.exists
    THEN NotEncoded("file not found", <<>>)
    ELSE EncryptCompressed(file.bytes, Compress(algorithm, file.bytes, compression_level),
                           encrypt, key, urandom)

\* the force flag is ignored and the size alone decides
should_encrypt_file_by_size(file_size, force_encrypt) ==
    IF file_size < 512 THEN FALSE
    ELSE IF file_size < 2048 THEN FALSE
    ELSE TRUE

should_encrypt_file(file_size, force_encrypt) ==
    IF force_encrypt THEN TRUE
    ELSE IF file_size < 512 THEN FALSE
    ELSE IF file_size < 2048 THEN FALSE
    ELSE TRUE

\* encode_cli.main after the call of should_encrypt_file
DecisionAfter(should_encrypt, file_size, force_encrypt) ==
    [enabled |-> ~(~should_encrypt /\ file_size < 2048), called |-> TRUE,
     force |-> force_encrypt, returned |-> should_encrypt]

\* encrypt_enabled = args.encrypt and not args.no_encrypt, then the size rule
EncryptDecision(encrypt, no_encrypt, file_size) ==
    IF (encrypt /\ ~no_encrypt) /\ file_size > 0
    THEN DecisionAfter(should_encrypt_file(file_size, ~no_encrypt), file_size,
                       ~no_encrypt)
    ELSE [enabled |-> encrypt /\ ~no_encrypt, called |-> FALSE, force |-> FALSE,
          returned |-> FALSE]

(***************************************************************************)
(* decode_and_decompress and load_and_restore_from_chunks.                 *)
(***************************************************************************)
Whitespace == {9, 10, 11, 12, 13, 32}

IsBlank(s) == \A i \in 1..Len(s) : s[i] \in Whitespace

\* an unknown algorithm name falls back to zlib
DecompressDefaultZlib(algorithm, blob) ==
    IF algorithm = "lzma" THEN lzma_decompress(blob)
    ELSE IF algorithm = "brotli" THEN brotli_decompress(blob)
    ELSE zlib_decompress(blob)

Decompress(algorithm, blob) ==
    IF algorithm = "zlib" THEN zlib_decompress(blob)
    ELSE IF algorithm = "lzma" THEN lzma_decompress(blob)
    ELSE IF algorithm = "brotli" THEN brotli_decompress(blob)
    ELSE Raise("unsupported algorithm")

NotDecoded(log, stages) == [ok |-> FALSE, val |-> <<>>, log |-> log, stages |-> stages]

DecodeStages(decrypt) == <<"b64decode">> \o (IF decrypt THEN <<"decrypt">> ELSE <<>>)

\* bytes that are not UTF-8 are dropped instead of raising
DecodeTextIgnoresErrors(u, decrypt) ==
    [ok |-> TRUE, val |-> u.val, log |-> "decoded",
     stages |-> DecodeStages(decrypt) \o <<"decompress", "utf8">>]

\* original_string = decompressed_bytes.decode('utf-8')
DecodeText(u, decrypt) ==
    IF ~u.ok
    THEN NotDecoded("UTF-8 error", DecodeStages(decrypt) \o <<"decompress", "utf8">>)
    ELSE [ok |-> TRUE, val |-> u.val, log |-> "decoded",
          stages |-> DecodeStages(decrypt) \o <<"decompress", "utf8">>]

DecodeDecompressed(z, decrypt) ==
    IF ~z.ok
    THEN NotDecoded(IF z.err = "unsupported algorithm" THEN "unsupported algorithm"
                    ELSE IF z.err = "zlib.error" THEN "zlib error" ELSE "unknown error",
                    IF z.err = "unsupported algorithm" THEN DecodeStages(decrypt)
                    ELSE DecodeStages(decrypt) \o <<"decompress">>)
    ELSE DecodeText(Utf8Decode(z.val), decrypt)

DecodeDecrypted(a, algorithm, decrypt) ==
    IF ~a.ok
    THEN NotDecoded(IF a.err = "ImportError" THEN "AES error" ELSE "unknown error",
                    DecodeStages(decrypt))
    ELSE DecodeDecompressed(Decompress(algorithm, a.val), decrypt)

\* the decrypt flag is ignored and the decoded bytes are always decrypted
DecodeBytesAlwaysDecrypt(d, algorithm, decrypt, key) ==
    IF ~d.ok
    THEN NotDecoded("Base64 error", <<"b64decode">>)
    ELSE DecodeDecrypted(aes_decrypt([type |-> "bytes", v |-> d.val], key),
                         algorithm, decrypt)

DecodeBytes(d, algorithm, decrypt, key) ==
    IF ~d.ok
    THEN NotDecoded("Base64 error", <<"b64decode">>)
    ELSE DecodeDecrypted(IF decrypt
                         THEN aes_decrypt([type |-> "bytes", v |-> d.val], key)
                         ELSE Ok(d.val),
                         algorithm, decrypt)

decode_and_decompress(encoded_string, algorithm, decrypt, key) ==
    IF IsBlank(encoded_string)
    THEN NotDecoded("empty input", <<>>)
    ELSE DecodeBytes(b64decode(Utf8Encode(encoded_string)), algorithm, decrypt, key)

\* the while loop of load_and_restore_from_chunks
RECURSIVE JoinLoopSkipsGap(_, _, _, _)
JoinLoopSkipsGap(fs, file_index, combined_string, reads) ==
    IF file_index \notin DOMAIN fs
    THEN IF \E j \in DOMAIN fs : j > file_index
         THEN JoinLoopSkipsGap(fs, file_index + 1, combined_string, reads)
         ELSE IF file_index = 0
         THEN [found |-> FALSE, combined |-> combined_string, reads |-> reads]
         ELSE [found |-> TRUE, combined |-> combined_string, reads |-> reads]
    ELSE JoinLoopSkipsGap(fs, file_index + 1, combined_string \o fs[file_index],
                          Append(reads, file_index))

RECURSIVE JoinLoopNoZeroCheck(_, _, _, _)
JoinLoopNoZeroCheck(fs, file_index, combined_string, reads) ==
    IF file_index \notin DOMAIN fs
    THEN [found |-> TRUE, combined |-> combined_string, reads |-> reads]
    ELSE JoinLoopNoZeroCheck(fs, file_index + 1, combined_string \o fs[file_index],
                             Append(reads, file_index))

RECURSIVE JoinLoop(_, _, _, _)
JoinLoop(fs, file_index, combined_string, reads) ==
    IF file_index \notin DOMAIN fs
    THEN IF file_index = 0
         THEN [found |-> FALSE, combined |-> combined_string, reads |-> reads]
         ELSE [found |-> TRUE, combined |-> combined_string, reads |-> reads]
    ELSE JoinLoop(fs, file_index + 1, combined_string \o fs[file_index],
                  Append(reads, file_index))

\* f_out.write(original_code) in text mode: '\n' becomes os.linesep
RECURSIVE TranslateNewlines(_, _)
TranslateNewlines(s, nl) ==
    IF s = <<>> THEN <<>>
    ELSE (IF Head(s) = 10 THEN nl ELSE <<Head(s)>>) \o TranslateNewlines(Tail(s), nl)

NoFile == [exists |-> FALSE, bytes |-> <<>>]
FileOf(b) == [exists |-> TRUE, bytes |-> b]

NotRestored(j, ds, out, joined, log, stages) ==
    [ret |-> FALSE, joined |-> joined, combined |-> j.combined, reads |-> j.reads,
     out |-> out, dirs |-> ds, log |-> log, stages |-> stages]

\* the output directory is created before the decode result is looked at
RestoreDecodedMkdirEarly(j, original_code, ds, out, nl) ==
    IF ~original_code.ok
    THEN NotRestored(j, ds \cup {OutDir}, out, TRUE, original_code.log,
                     <<"join">> \o original_code.stages)
    ELSE [ret |-> TRUE, joined |-> TRUE, combined |-> j.combined, reads |-> j.reads,
          out |-> FileOf(Utf8Encode(TranslateNewlines(original_code.val, nl))),
          dirs |-> ds \cup {OutDir}, log |-> "restored",
          stages |-> <<"join">> \o original_code.stages \o <<"write">>]

\* create the output directory and write the restored text
RestoreDecoded(j, original_code, ds, out, nl) ==
    IF ~original_code.ok
    THEN NotRestored(j, ds, out, TRUE, original_code.log,
                     <<"join">> \o original_code.stages)
    ELSE [ret |-> TRUE, joined |-> TRUE, combined |-> j.combined, reads |-> j.reads,
          out |-> FileOf(Utf8Encode(TranslateNewlines(original_code.val, nl))),
          dirs |-> ds \cup {OutDir}, log |-> "restored",
          stages |-> <<"join">> \o original_code.stages \o <<"write">>]

RestoreJoined(j, ds, out, nl, algorithm, decrypt, key) ==
    IF ~j.found
    THEN NotRestored(j, ds, out, FALSE, "no chunks found", <<"join">>)
    ELSE IF j.combined = <<>>
    THEN NotRestored(j, ds, out, TRUE, "empty chunks", <<"join">>)
    ELSE RestoreDecoded(j, decode_and_decompress(j.combined, algorithm, decrypt, key),
                        ds, out, nl)

load_and_restore_from_chunks(fs, ds, out, nl, algorithm, decrypt, key) ==
    RestoreJoined(JoinLoop(fs, 0, <<>>, <<>>), ds, out, nl, algorithm, decrypt, key)

(***************************************************************************)
(* Inputs of the exploration.                                              *)
(***************************************************************************)
BaseText == <<81, 85, 74, 68, 82, 69, 90, 71>>

TextSample == {Slice(BaseText, 0, n) : n \in 0..MaxTextLen}

ChunkSizes(T) == {-1, 0, 1, 2, Len(T), Len(T) + 1}

FileSample == {<<65>>, <<65, 10>>, <<195, 169>>, <<255>>, <<>>}

Algorithms == {"zlib", "lzma", "brotli"}

Modes == {"ctr", "cbc", "ofb"}

KeySample == {<<107>>, <<120>>}

Block16 == [i \in 1..BlockSize |-> 64 + i]

DataSample == {<<>>, <<65>>, <<65, 66>>, Block16}

\* key strings that coerce to the same 32 bytes as another key of the sample
PaddedKey == <<107, 0>>
LongKey == [i \in 1..33 |-> 97 + (i % 7)]
LongKeyAlt == [LongKey EXCEPT ![33] = 122]
AccentKey == [i \in 1..32 |-> IF i = 32 THEN 233 ELSE 97]
AccentKeyAlt == [i \in 1..32 |-> IF i = 32 THEN 195 ELSE 97]

CipherKeySample ==
    KeySample \cup {PaddedKey, LongKey, LongKeyAlt, AccentKey, AccentKeyAlt}

Nonce1 == [i \in 1..BlockSize |-> i]
Nonce2 == [i \in 1..BlockSize |-> 255]
NonceSample == {Nonce1, Nonce2}

\* encrypted_data handed to aes_decrypt without a preceding aes_encrypt
CipherSample ==
    {[type |-> "bytes", v |-> <<1, 2, 3>>],
     [type |-> "bytes", v |-> Nonce1],
     [type |-> "str", v |-> [i \in 1..BlockSize |-> 65]],
     [type |-> "str", v |-> <<65>>]}

DefaultLevel == 9
PipeChunkSize == 5

\* defaults of the command line
CliAlgorithm == "brotli"
CliKey == <<101, 110, 99, 111, 100, 101, 95, 112, 97, 116, 99, 104>>
CliChunkSize == 3000

\* os.path.getsize of the input file, 0 when it does not exist
FileSize(file) == IF file.exists THEN Len(file.bytes) ELSE 0

CliFileSample ==
    {NoFile, FileOf(<<>>), FileOf(<<65>>), FileOf(<<65, 10>>), FileOf(<<255>>),
     FileOf(<<65, 66, 67>>)}

\* file sizes on both sides of the two thresholds of should_encrypt_file
SizeSample == {0, 1, 511, 512, 2047, 2048, 2049}

\* an algorithm name that is none of the three
Unsupported == "gzip"

EncodeInput(x, a, l, e) == [file |-> x, algorithm |-> a, level |-> l, encrypt |-> e]

\* calls of encode_file with a missing file, a level outside the algorithm's
\* range or an unknown algorithm name
OddEncodeInputs ==
    {EncodeInput(NoFile, "zlib", DefaultLevel, FALSE),
     EncodeInput(FileOf(<<65>>), "zlib", 10, FALSE),
     EncodeInput(FileOf(<<65>>), "zlib", -2, FALSE),
     EncodeInput(FileOf(<<65>>), "lzma", 10, TRUE),
     EncodeInput(FileOf(<<65>>), "brotli", 10, FALSE),
     EncodeInput(FileOf(<<65>>), "brotli", 12, FALSE),
     EncodeInput(FileOf(<<65>>), Unsupported, DefaultLevel, FALSE),
     EncodeInput(FileOf(<<65>>), Unsupported, DefaultLevel, TRUE)}

EncodeInputs ==
    {EncodeInput(FileOf(x), a, DefaultLevel, e) :
        x \in FileSample, a \in Algorithms, e \in BOOLEAN}
    \cup OddEncodeInputs

DecodeInput(a, d, k) == [algorithm |-> a, decrypt |-> d, key |-> k]

DecodeInputs ==
    {DecodeInput(a, d, k) : a \in Algorithms, d \in BOOLEAN, k \in KeySample}
    \cup {DecodeInput(Unsupported, d, <<107>>) : d \in BOOLEAN}

\* chunk texts a user may place in the chunk directory
InsertAt(t, pos, c) == Slice(t, 0, pos) \o <<c>> \o Slice(t, pos, Len(t))

GoodText == b64encode(zlib_compress(<<65>>, DefaultLevel).val)
SpacedText == InsertAt(GoodText, 3, 32)
BangText == InsertAt(GoodText, 3, 33)
TruncText == Slice(GoodText, 0, Len(GoodText) - 1)
ShortText == b64encode(<<1, 2, 3>>)
BadUtf8Text == b64encode(zlib_compress(<<255>>, DefaultLevel).val)
SixteenText == b64encode(Nonce1)

ChunkTextSample ==
    {GoodText, SpacedText, BangText, TruncText, ShortText, BadUtf8Text, SixteenText,
     <<>>, <<32>>}

(***************************************************************************)
(* State machine.                                                          *)
(***************************************************************************)
Init ==
    /\ chunks = EmptyFs
    /\ dirs = {}
    /\ outFile = NoFile
    /\ linesep \in {<<10>>, <<13, 10>>}
    /\ last = [op |-> "init"]
    /\ steps = 0
    /\ writer = [pc |-> "idle"]
    /\ reader = [pc |-> "idle"]

\* what a later operation remembers of the operation before it
Summary(l) ==
    IF l.op \in {"split", "split_io_error", "encode", "aes_encrypt"} THEN l
    ELSE IF l.op = "restore"
    THEN [op |-> l.op, ret |-> l.ret, stages |-> l.stages, log |-> l.log]
    ELSE [op |-> l.op]

\* a direct call of save_encoded_string_in_chunks
SplitDone(T, s, r) ==
    /\ chunks' = r.chunks
    /\ dirs' = r.dirs
    /\ last' = [op |-> "split", text |-> T, chunk_size |-> s, ret |-> r.ret,
                written |-> r.written, before |-> chunks, dirsBefore |-> dirs,
                log |-> r.log]
    /\ steps' = steps + 1
    /\ UNCHANGED <<outFile, linesep, writer, reader>>

Split(T, s) == SplitDone(T, s, save_encoded_string_in_chunks(T, s, chunks, dirs, NoFail))

\* a call of save_encoded_string_in_chunks whose write of chunk failAt raises
SplitFailDone(T, s, failAt, r) ==
    /\ chunks' = r.chunks
    /\ dirs' = r.dirs
    /\ last' = [op |-> "split_io_error", text |-> T, chunk_size |-> s,
                failAt |-> failAt, ret |-> r.ret, written |-> r.written,
                before |-> chunks, dirsBefore |-> dirs, log |-> r.log]
    /\ steps' = steps + 1
    /\ UNCHANGED <<outFile, linesep, writer, reader>>

SplitFailing(T, s, failAt) ==
    SplitFailDone(T, s, failAt,
                  save_encoded_string_in_chunks(T, s, chunks, dirs, failAt))

\* decode_file: load_and_restore_from_chunks on the chunk files
RestoreDone(algorithm, decrypt, key, r) ==
    /\ outFile' = r.out
    /\ dirs' = r.dirs
    /\ last' = [op |-> "restore", algorithm |-> algorithm, decrypt |-> decrypt,
                key |-> key, ret |-> r.ret, joined |-> r.joined,
                combined |-> r.combined, reads |-> r.reads, log |-> r.log,
                stages |-> r.stages, outBefore |-> outFile, dirsBefore |-> dirs,
                after |-> Summary(last)]
    /\ steps' = steps + 1
    /\ UNCHANGED <<chunks, linesep, writer, reader>>

Restore(algorithm, decrypt, key) ==
    RestoreDone(algorithm, decrypt, key,
                load_and_restore_from_chunks(chunks, dirs, outFile, linesep,
                                             algorithm, decrypt, key))

\* the user removes one chunk file
RemoveChunk(i) ==
    /\ i \in DOMAIN chunks
    /\ chunks' = [j \in (DOMAIN chunks) \ {i} |-> chunks[j]]
    /\ last' = [op |-> "remove", index |-> i]
    /\ steps' = steps + 1
    /\ UNCHANGED <<dirs, outFile, linesep, writer, reader>>

\* the user places a chunk file that load_and_restore_from_chunks will read
PutChunk(i, text) ==
    /\ chunks' = WriteFile(chunks, i, text)
    /\ last' = [op |-> "put", index |-> i, text |-> text]
    /\ steps' = steps + 1
    /\ UNCHANGED <<dirs, outFile, linesep, writer, reader>>

\* encode_file: compress_and_encode, then save_encoded_string_in_chunks
EncodeDone(args, file, algorithm, compression, encrypt, key, chunk_size, e, r) ==
    /\ chunks' = r.chunks
    /\ dirs' = r.dirs
    /\ last' = [op |-> "encode", args |-> args, file |-> file, algorithm |-> algorithm,
                compression |-> compression, encrypt |-> encrypt, key |-> key,
                chunk_size |-> chunk_size, ret |-> r.ret, encoded |-> e.val,
                encodedOk |-> e.ok, written |-> r.written, before |-> chunks,
                dirsBefore |-> dirs,
                stages |-> e.stages \o (IF e.ok THEN <<"split">> ELSE <<>>),
                log |-> r.log]
    /\ steps' = steps + 1
    /\ UNCHANGED <<outFile, linesep, writer, reader>>

EncodeSave(args, file, algorithm, compression, encrypt, key, chunk_size, e) ==
    EncodeDone(args, file, algorithm, compression, encrypt, key, chunk_size, e,
               IF e.ok
               THEN save_encoded_string_in_chunks(e.val, chunk_size, chunks, dirs, NoFail)
               ELSE NotSaved(chunks, dirs, e.log))

EncodeFile(file, algorithm, compression, encrypt, key, urandom, chunk_size) ==
    EncodeSave([cli |-> FALSE], file, algorithm, compression, encrypt, key, chunk_size,
               compress_and_encode(file, compression, algorithm, encrypt, key, urandom))

\* encode_cli.main: the encryption flag is settled from the arguments and the
\* file size, then compress_and_encode and save_encoded_string_in_chunks run
EncodeCliWith(file, decision, no_encrypt, urandom) ==
    EncodeSave([cli |-> TRUE, no_encrypt |-> no_encrypt, decision |-> decision],
               file, CliAlgorithm, DefaultLevel, decision.enabled, CliKey,
               CliChunkSize,
               compress_and_encode(file, DefaultLevel, CliAlgorithm, decision.enabled,
                                   CliKey, urandom))

EncodeCli(file, no_encrypt, urandom) ==
    EncodeCliWith(file, EncryptDecision(TRUE, no_encrypt, FileSize(file)), no_encrypt,
                  urandom)

\* a call of should_encrypt_file
ShouldEncryptCall(file_size, force_encrypt) ==
    /\ last' = [op |-> "should_encrypt_file", file_size |-> file_size,
                force_encrypt |-> force_encrypt,
                ret |-> should_encrypt_file(file_size, force_encrypt),
                after |-> Summary(last)]
    /\ steps' = steps + 1
    /\ UNCHANGED <<chunks, dirs, outFile, linesep, writer, reader>>

\* decode_cli.main: decrypt_enabled = args.decrypt and not args.no_decrypt
DecodeCli(no_decrypt) == Restore(CliAlgorithm, TRUE /\ ~no_decrypt, CliKey)

AesEncryptCall(data, key, mode, urandom) ==
    /\ last' = [op |-> "aes_encrypt", data |-> data, key |-> key, mode |-> mode,
                urandom |-> urandom, key_bytes |-> KeyBytes(key),
                ret |-> aes_encrypt(data, key, mode, urandom)]
    /\ steps' = steps + 1
    /\ UNCHANGED <<chunks, dirs, outFile, linesep, writer, reader>>

AesDecryptCall(encrypted_data, key) ==
    /\ last' = [op |-> "aes_decrypt", encrypted_data |-> encrypted_data, key |-> key,
                key_bytes |-> DecryptKeyBytes(key),
                res |-> aes_decrypt(encrypted_data, key),
                after |-> IF last.op = "aes_encrypt"
                             /\ encrypted_data = [type |-> "bytes", v |-> last.ret]
                          THEN last ELSE [op |-> "none"]]
    /\ steps' = steps + 1
    /\ UNCHANGED <<chunks, dirs, outFile, linesep, writer, reader>>

DecryptInputs ==
    CipherSample \cup
    (IF last.op = "aes_encrypt" THEN {[type |-> "bytes", v |-> last.ret]} ELSE {})

SplitStep ==
    /\ steps < MaxSteps
    /\ \E T \in TextSample : \E s \in ChunkSizes(T) : Split(T, s)

JoinStep ==
    /\ steps < MaxSteps
    /\ Restore("zlib", FALSE, <<107>>)

RemoveStep ==
    /\ steps < MaxSteps
    /\ \E i \in DOMAIN chunks : RemoveChunk(i)

\* the write of a chunk that the loop does reach raises
SplitFailStep ==
    /\ steps < MaxSteps
    /\ \E T \in TextSample : \E s \in {1, 2} : \E f \in {0, 1} :
          /\ f * s < Len(T)
          /\ SplitFailing(T, s, f)

NextChunk == SplitStep \/ JoinStep \/ RemoveStep \/ SplitFailStep

SpecChunk == Init /\ [][NextChunk]_vars

EncryptStep ==
    /\ steps < MaxCipherSteps
    /\ \E d \in DataSample : \E k \in CipherKeySample : \E m \in Modes :
       \E n \in NonceSample :
          AesEncryptCall(d, k, m, n)

DecryptStep ==
    /\ steps < MaxCipherSteps
    /\ \E ed \in DecryptInputs : \E k \in CipherKeySample : AesDecryptCall(ed, k)

NextCipher == EncryptStep \/ DecryptStep

SpecCipher == Init /\ [][NextCipher]_vars

EncodeStep ==
    /\ steps < MaxPipeSteps
    /\ \E c \in EncodeInputs :
          EncodeFile(c.file, c.algorithm, c.level, c.encrypt, <<107>>, Nonce1,
                     PipeChunkSize)

DecodeStep ==
    /\ steps < MaxPipeSteps
    /\ \E c \in DecodeInputs : Restore(c.algorithm, c.decrypt, c.key)

Next == EncodeStep \/ DecodeStep

Spec == Init /\ [][Next]_vars

(***************************************************************************)
(* One invocation of save_encoded_string_in_chunks (writer) and one of     *)
(* load_and_restore_from_chunks (reader) run as two processes on the same  *)
(* base name; each step is one file-system operation of the loop.  A chunk *)
(* is shorter than the stream buffer, so its text reaches the file in one  *)
(* write when the with-block closes it.                                    *)
(***************************************************************************)
\* the piece starts at the beginning of the string
ChunkPieceFromStart(encoded_string, chunk_size, i) ==
    Slice(encoded_string, 0, i + chunk_size)

\* chunk = encoded_string[i:i + chunk_size]
ChunkPiece(encoded_string, chunk_size, i) ==
    Slice(encoded_string, i, i + chunk_size)

WriterReturns(T, chunk_size, ret) ==
    [pc |-> "done", text |-> T, chunk_size |-> chunk_size, ret |-> ret]

WriterLoop(T, chunk_size, i, num_files) ==
    [pc |-> "loop", text |-> T, chunk_size |-> chunk_size, i |-> i,
     num_files |-> num_files]

\* the checks before the loop, and os.makedirs of the output directory
WriterEnter(T, chunk_size) ==
    IF chunk_size < 0
    THEN writer' = WriterReturns(T, chunk_size, FALSE) /\ UNCHANGED dirs
    ELSE writer' = WriterLoop(T, chunk_size, 0, 0) /\ dirs' = dirs \cup {ChunkDir}

WriterStart(T, s) ==
    /\ writer.pc = "idle"
    /\ IF T = <<>>
       THEN writer' = WriterReturns(T, s, FALSE) /\ UNCHANGED dirs
       ELSE WriterEnter(T, EffectiveChunkSize(T, s))
    /\ UNCHANGED <<chunks, outFile, linesep, last, steps, reader>>

\* the loop head, and open(file_path, 'w'): the file exists and is empty
WriterOpen ==
    /\ writer.pc = "loop"
    /\ IF writer.i >= Len(writer.text)
       THEN writer' = WriterReturns(writer.text, writer.chunk_size, TRUE)
            /\ UNCHANGED chunks
       ELSE /\ chunks' = WriteFile(chunks, writer.num_files, <<>>)
            /\ writer' = [writer EXCEPT !.pc = "opened"]
    /\ UNCHANGED <<dirs, outFile, linesep, last, steps, reader>>

\* f.write(chunk) and the end of the with-block, then num_files += 1
WriterClose ==
    /\ writer.pc = "opened"
    /\ chunks' = WriteFile(chunks, writer.num_files,
                           ChunkPiece(writer.text, writer.chunk_size, writer.i))
    /\ writer' = WriterLoop(writer.text, writer.chunk_size,
                            writer.i + writer.chunk_size, writer.num_files + 1)
    /\ UNCHANGED <<dirs, outFile, linesep, last, steps, reader>>

ReaderLoop(file_index, combined_string, reads) ==
    [pc |-> "loop", file_index |-> file_index, combined |-> combined_string,
     reads |-> reads]

\* file_index = 0, combined_string = ""
ReaderStart ==
    /\ reader.pc = "idle"
    /\ reader' = ReaderLoop(0, <<>>, <<>>)
    /\ UNCHANGED <<chunks, dirs, outFile, linesep, last, steps, writer>>

\* os.path.exists(file_path) is true: the file is read and appended
ReaderRead ==
    /\ reader.pc = "loop"
    /\ reader.file_index \in DOMAIN chunks
    /\ reader' = ReaderLoop(reader.file_index + 1,
                            reader.combined \o chunks[reader.file_index],
                            Append(reader.reads, reader.file_index))
    /\ UNCHANGED <<chunks, dirs, outFile, linesep, last, steps, writer>>

ReaderDone(r) ==
    /\ reader' = [pc |-> "done", ret |-> r.ret, joined |-> r.joined,
                  combined |-> r.combined, reads |-> r.reads, log |-> r.log]
    /\ outFile' = r.out
    /\ dirs' = r.dirs
    /\ UNCHANGED <<chunks, linesep, last, steps, writer>>

\* os.path.exists(file_path) is false: the loop ends and the rest of
\* load_and_restore_from_chunks runs on what was read
ReaderFinish ==
    /\ reader.pc = "loop"
    /\ reader.file_index \notin DOMAIN chunks
    /\ ReaderDone(RestoreJoined([found |-> reader.file_index # 0,
                                 combined |-> reader.combined,
                                 reads |-> reader.reads],
                                dirs, outFile, linesep, "zlib", FALSE, <<107>>))

WriterStartStep == \E T \in TextSample : \E s \in ChunkSizes(T) : WriterStart(T, s)

NextRace ==
    \/ WriterStartStep
    \/ WriterOpen
    \/ WriterClose
    \/ ReaderStart
    \/ ReaderRead
    \/ ReaderFinish

SpecRace == Init /\ [][NextRace]_vars

EncodeCliStep ==
    /\ steps < MaxCliSteps
    /\ \E f \in CliFileSample : \E n \in BOOLEAN : EncodeCli(f, n, Nonce1)

DecodeCliStep ==
    /\ steps < MaxCliSteps
    /\ \E n \in BOOLEAN : DecodeCli(n)

ShouldEncryptStep ==
    /\ steps < MaxCliSteps
    /\ \E n \in SizeSample : \E f \in BOOLEAN : ShouldEncryptCall(n, f)

NextCli == EncodeCliStep \/ DecodeCliStep \/ ShouldEncryptStep

SpecCli == Init /\ [][NextCli]_vars

\* the entry points called on inputs a user prepared by hand
PutStep ==
    /\ steps < MaxEntrySteps
    /\ \E i \in 0..1 : \E t \in ChunkTextSample : PutChunk(i, t)

EntrySplitStep ==
    /\ steps < MaxEntrySteps
    /\ \E T \in {<<>>, ShortText} : \E s \in {0, PipeChunkSize} : Split(T, s)

EntryEncodeStep ==
    /\ steps < MaxEntrySteps
    /\ \E x \in {<<>>, <<65>>} :
          EncodeFile(FileOf(x), "zlib", DefaultLevel, FALSE, <<107>>, Nonce1,
                     PipeChunkSize)

EntryRestoreStep ==
    /\ steps < MaxEntrySteps
    /\ \E a \in {"zlib", "lzma"} : \E d \in BOOLEAN : Restore(a, d, <<107>>)

NextEntry == PutStep \/ EntrySplitStep \/ EntryEncodeStep \/ EntryRestoreStep

SpecEntry == Init /\ [][NextEntry]_vars

(***************************************************************************)
(* Properties.                                                             *)
(***************************************************************************)
\* smallest index with no chunk file
FirstAbsent(fs) == CHOOSE k \in 0..Cardinality(DOMAIN fs) :
                       k \notin DOMAIN fs /\ \A i \in 0..(k - 1) : i \in DOMAIN fs

\* indices whose file differs between two file systems
Touched(before, after) ==
    {i \in (DOMAIN before) \cup (DOMAIN after) :
        \/ i \notin DOMAIN before
        \/ i \notin DOMAIN after
        \/ before[i] # after[i]}

IsEncodeThenRestore ==
    /\ last.op = "restore"
    /\ last.after.op = "encode"
    /\ last.after.ret
    /\ last.after.before = EmptyFs
    /\ last.after.file.exists
    /\ last.after.file.bytes # <<>>
    /\ last.algorithm = last.after.algorithm
    /\ last.decrypt = last.after.encrypt
    /\ last.key = last.after.key

\* C1: encoding a non-empty file onto a fresh base name and decoding with the
\* same algorithm, flag and key succeeds and restores the file's bytes.
C1_RoundTrip ==
    IsEncodeThenRestore => (last.ret /\ outFile = last.after.file)

IsSplitThenJoin ==
    /\ last.op = "restore"
    /\ last.after.op = "split"
    /\ last.after.before = EmptyFs
    /\ last.after.text # <<>>
    /\ last.after.chunk_size >= 0

\* C2: split of a non-empty text with chunk size >= 0 onto a base name without
\* chunk files, followed by join, yields exactly the text.
C2_ChunkRoundTrip ==
    IsSplitThenJoin => (last.after.ret /\ last.joined /\ last.combined = last.after.text)

C2_Witness ==
    /\ IsSplitThenJoin
    /\ last.after.chunk_size = 2
    /\ Len(last.after.text) = 3
    /\ last.combined = last.after.text

IsSplitPositive ==
    /\ last.op = "split"
    /\ last.ret
    /\ last.text # <<>>
    /\ last.chunk_size > 0

\* C3: a successful split with chunk size s > 0 writes exactly ceil(len/s)
\* files, at indices 0..n-1, file i holding text[i*s : (i+1)*s]; every piece is
\* non-empty, all but the last have s characters, the last has 1..s.
C3_SplitPieces ==
    IsSplitPositive =>
        LET n == last.written
            s == last.chunk_size
            T == last.text
        IN  /\ n * s >= Len(T)
            /\ (n - 1) * s < Len(T)
            /\ Touched(last.before, chunks) \subseteq 0..(n - 1)
            /\ \A i \in 0..(n - 1) :
                  /\ i \in DOMAIN chunks
                  /\ chunks[i] = Slice(T, i * s, (i + 1) * s)
                  /\ Len(chunks[i]) >= 1
                  /\ Len(chunks[i]) <= s
                  /\ (i < n - 1 => Len(chunks[i]) = s)

C3_Witness ==
    /\ IsSplitPositive
    /\ last.written = 2
    /\ Len(chunks[0]) = 2
    /\ Len(chunks[1]) = 1

\* C4: join reads the chunks in increasing index order from 0, stops at the
\* smallest absent index k and returns the concatenation of chunks 0..k-1,
\* ignoring the files above k without an error.
C4_JoinStopsAtGap ==
    (last.op = "restore" /\ 0 \in DOMAIN chunks) =>
        LET k == FirstAbsent(chunks)
        IN  /\ last.joined
            /\ last.log # "no chunks found"
            /\ last.reads = [i \in 1..k |-> i - 1]
            /\ last.combined = Concat(chunks, 0, k)

C4_Witness ==
    /\ last.op = "restore"
    /\ DOMAIN chunks = {0, 2}
    /\ last.joined
    /\ last.combined = chunks[0]

\* C5: a join with no chunk 0 fails with "no chunks found" whatever other
\* chunk files exist, reads no chunk and leaves the output file and the
\* directories as they were.
C5_MissingChunkZero ==
    (last.op = "restore" /\ 0 \notin DOMAIN chunks) =>
        /\ ~last.ret
        /\ last.log = "no chunks found"
        /\ last.reads = <<>>
        /\ outFile = last.outBefore
        /\ dirs = last.dirsBefore

C5_Witness ==
    /\ last.op = "restore"
    /\ 0 \notin DOMAIN chunks
    /\ 1 \in DOMAIN chunks
    /\ ~last.ret

\* C6: split with a negative chunk size returns False and writes nothing: no
\* chunk file and no directory is created, existing chunk files are unchanged;
\* for a non-empty text the failure is the invalid chunk size.
C6_NegativeChunkSize ==
    (last.op = "split" /\ last.chunk_size < 0) =>
        /\ ~last.ret
        /\ last.written = 0
        /\ chunks = last.before
        /\ dirs = last.dirsBefore
        /\ (last.text # <<>> => last.log = "invalid chunk size")

C6_Witness ==
    /\ last.op = "split"
    /\ last.chunk_size < 0
    /\ last.text # <<>>
    /\ ~last.ret
    /\ dirs = {}
    /\ chunks = EmptyFs

\* C7: split with chunk size 0 writes exactly one file, index 0, holding the
\* whole text.
C7_ZeroIsSingleChunk ==
    (last.op = "split" /\ last.chunk_size = 0 /\ last.text # <<>>) =>
        /\ last.ret
        /\ last.written = 1
        /\ 0 \in DOMAIN chunks
        /\ chunks[0] = last.text
        /\ Touched(last.before, chunks) \subseteq {0}

C7_Witness ==
    /\ last.op = "split"
    /\ last.chunk_size = 0
    /\ Len(last.text) = 3
    /\ chunks[0] = last.text

TrialOrder == <<"ctr", "cbc", "ofb">>

\* C8: aes_decrypt tries counter mode, then cipher-block-chaining, then
\* output-feedback; it returns the output of the first trial that does not
\* raise, and a later trial runs only after every earlier one has raised.
C8_TrialOrder ==
    (last.op = "aes_decrypt" /\ last.res.attempts # <<>>) =>
        LET at == last.res.attempts
            n == Len(at)
        IN  /\ n <= 3
            /\ \A i \in 1..n : at[i].mode = TrialOrder[i]
            /\ \A i \in 1..(n - 1) : at[i].raised
            /\ (~at[n].raised => (last.res.ok /\ last.res.val = at[n].out))
            /\ (at[n].raised => (n = 3 /\ ~last.res.ok))

C8_Witness ==
    /\ last.op = "aes_decrypt"
    /\ last.after.op = "aes_encrypt"
    /\ last.after.mode = "cbc"
    /\ last.res.ok
    /\ Len(last.res.attempts) = 1
    /\ last.res.attempts[1].mode = "ctr"

IsCtrEncryptThenDecrypt ==
    /\ last.op = "aes_decrypt"
    /\ last.after.op = "aes_encrypt"
    /\ last.after.mode = "ctr"

SameKey == KeyBytes(last.key) = KeyBytes(last.after.key)

\* the keystreams of the two keys differ somewhere within the data
KeystreamsDiffer ==
    LET n == Len(last.after.data)
    IN  CtrStream(KeyBytes(last.key), last.after.urandom, n)
        # CtrStream(KeyBytes(last.after.key), last.after.urandom, n)

\* C9 as stated: the right key returns the data; a key with another coerced
\* form does not raise and returns bytes that are not the data.
C9_Original ==
    IsCtrEncryptThenDecrypt =>
        /\ last.res.ok
        /\ (SameKey => last.res.val = last.after.data)
        /\ (~SameKey => (Len(last.res.val) = Len(last.after.data)
                         /\ last.res.val # last.after.data))

\* C9 amended: the right key returns the data; a key with another coerced form
\* does not raise and returns bytes of the data's length, which are not the
\* data whenever the data is non-empty and the two keystreams differ within it.
C9_CtrAmbiguity ==
    IsCtrEncryptThenDecrypt =>
        /\ last.res.ok
        /\ Len(last.res.val) = Len(last.after.data)
        /\ (SameKey => last.res.val = last.after.data)
        /\ ((~SameKey /\ KeystreamsDiffer) => last.res.val # last.after.data)
        /\ (last.after.data = <<>> => last.res.val = last.after.data)

C9_Witness ==
    /\ IsCtrEncryptThenDecrypt
    /\ ~SameKey
    /\ last.after.data = <<>>
    /\ last.res.ok
    /\ last.res.val = last.after.data

AllTrialsRaised ==
    /\ Len(last.res.attempts) = 3
    /\ \A i \in 1..3 : last.res.attempts[i].raised

\* C10: aes_decrypt fails with the all-modes-failed error exactly when the
\* three trials have raised, and the error lists the reason of each trial.
C10_DecryptionFailed ==
    last.op = "aes_decrypt" =>
        /\ (last.res.err = "ValueError: all modes failed") <=> AllTrialsRaised
        /\ AllTrialsRaised =>
              /\ ~last.res.ok
              /\ last.res.reasons = [i \in 1..3 |-> last.res.attempts[i].reason]
        /\ (~AllTrialsRaised => last.res.reasons = <<>>)

C10_Witness ==
    /\ last.op = "aes_decrypt"
    /\ AllTrialsRaised
    /\ last.res.err = "ValueError: all modes failed"
    /\ Len(last.res.reasons) = 3

\* the UTF-8 bytes of the key, zero-padded or cut to 32 bytes
Coerced(key) ==
    LET u == Utf8Encode(key)
    IN  [i \in 1..32 |-> IF i <= Len(u) THEN u[i] ELSE 0]

IsEncryptThenDecrypt ==
    /\ last.op = "aes_decrypt"
    /\ last.after.op = "aes_encrypt"

\* C11: aes_encrypt and aes_decrypt derive the same 32-byte key from a key
\* string, its UTF-8 bytes zero-padded or cut to 32; two key strings with the
\* same coerced form give the same decryption, which for a counter-mode
\* ciphertext is the data.
C11_KeyCoercion ==
    /\ last.op \in {"aes_encrypt", "aes_decrypt"} =>
          /\ Len(last.key_bytes) = 32
          /\ last.key_bytes = Coerced(last.key)
    /\ (IsEncryptThenDecrypt /\ Coerced(last.key) = Coerced(last.after.key)) =>
          /\ last.key_bytes = last.after.key_bytes
          /\ last.res = aes_decrypt(last.encrypted_data, last.after.key)
          /\ last.after.mode = "ctr" =>
                (last.res.ok /\ last.res.val = last.after.data)

C11_Witness ==
    /\ IsEncryptThenDecrypt
    /\ last.after.mode = "ctr"
    /\ last.key # last.after.key
    /\ Len(Utf8Encode(last.after.key)) > 32
    /\ last.key_bytes = last.after.key_bytes
    /\ last.after.data # <<>>
    /\ last.res.ok
    /\ last.res.val = last.after.data

\* C12: aes_encrypt returns the 16-byte IV/nonce followed by the payload; the
\* payload is as long as the data in counter and output-feedback mode, and
\* the smallest multiple of 16 strictly greater than the data's length in
\* cipher-block-chaining mode.
C12_CiphertextLayout ==
    last.op = "aes_encrypt" =>
        LET n == Len(last.data)
        IN  /\ Len(last.urandom) = 16
            /\ Slice(last.ret, 0, 16) = last.urandom
            /\ Len(last.ret) - 16 = IF last.mode \in {"ctr", "ofb"} THEN n
                                    ELSE 16 * ((n \div 16) + 1)

C12_Witness ==
    /\ last.op = "aes_encrypt"
    /\ last.mode = "cbc"
    /\ Len(last.data) = 16
    /\ Len(last.ret) = 48

Range(f) == {f[i] : i \in DOMAIN f}

\* a character outside the standard alphabet, or a length that is not a
\* multiple of four
Malformed(t) ==
    \/ \E i \in 1..Len(t) : B64Value(t[i]) = 64 /\ t[i] # PadChar
    \/ Len(t) % 4 # 0

\* C13 as stated: a joined text with a character outside the base64 alphabet
\* or an incorrect padding length makes the restore fail at the
\* text-decoding stage.
C13_MalformedRejected ==
    (last.op = "restore" /\ last.joined /\ ~IsBlank(last.combined)
     /\ Malformed(last.combined)) =>
        (~last.ret /\ last.log = "Base64 error")

LevelRange(algorithm) ==
    IF algorithm = "zlib" THEN -1..9
    ELSE IF algorithm = "lzma" THEN 0..9 ELSE 0..11

Clamp(level, algorithm) ==
    IF level \in LevelRange(algorithm) THEN level
    ELSE IF level > 0 THEN (IF algorithm = "brotli" THEN 11 ELSE 9)
    ELSE (IF algorithm = "zlib" THEN -1 ELSE 0)

\* C14 as stated: for every integer level, encoding a non-empty file with one
\* of the three algorithms succeeds and gives the text of the nearest valid
\* level.
C14_LevelClamped ==
    (last.op = "encode" /\ last.file.exists /\ last.file.bytes # <<>>
     /\ last.algorithm \in Algorithms) =>
        /\ last.encodedOk
        /\ last.encoded =
             compress_and_encode(last.file, Clamp(last.compression, last.algorithm),
                                 last.algorithm, last.encrypt, last.key, Nonce1).val

\* a stage before the split fails on the inputs of the last encode
PreSplitFailure ==
    \/ ~last.file.exists
    \/ ~Compress(last.algorithm, last.file.bytes, last.compression).ok
    \/ (last.encrypt /\ ~CRYPTOGRAPHY_AVAILABLE)
    \/ Len(last.file.bytes) = 0

\* C16: when reading, compression, encryption or base64 encoding fails, the
\* encode returns failure without calling split and no chunk file or
\* directory is created or overwritten; chunk files change only after the
\* complete encoded text exists, and then they hold exactly that text.
C16_ForwardAtomicity ==
    last.op = "encode" =>
        /\ PreSplitFailure =>
              /\ ~last.encodedOk
              /\ ~last.ret
              /\ last.written = 0
              /\ "split" \notin Range(last.stages)
              /\ chunks = last.before
              /\ dirs = last.dirsBefore
        /\ (chunks # last.before \/ dirs # last.dirsBefore) =>
              /\ ~PreSplitFailure
              /\ last.encodedOk
              /\ last.encoded # <<>>
              /\ Concat(chunks, 0, last.written) = last.encoded

C16_Witness ==
    /\ last.op = "encode"
    /\ last.file.exists
    /\ last.file.bytes # <<>>
    /\ ~Compress(last.algorithm, last.file.bytes, last.compression).ok
    /\ last.before # EmptyFs
    /\ chunks = last.before
    /\ ~last.ret

FailedStage(l) == l.stages[Len(l.stages)]

\* what the caller of load_and_restore_from_chunks gets back
Outcome(l) == l.ret

\* C17 as stated: two failed restores that failed in different stages give
\* the caller different outcomes.
C17_DistinctFailures ==
    (last.op = "restore" /\ last.after.op = "restore" /\ ~last.ret /\ ~last.after.ret
     /\ FailedStage(last) # FailedStage(last.after)) =>
        Outcome(last) # Outcome(last.after)

FullOrder(decrypt) ==
    <<"join", "b64decode">> \o (IF decrypt THEN <<"decrypt">> ELSE <<>>)
    \o <<"decompress", "utf8", "write">>

\* C18: a restore runs its stages once each in pipeline order and stops at the
\* first that fails; a failed restore returns False and leaves the output
\* file and the directories as they were; a restore returns True only after
\* every stage has run and the decoded text has been written.
C18_FirstFailureAborts ==
    last.op = "restore" =>
        LET full == FullOrder(last.decrypt)
            d == decode_and_decompress(last.combined, last.algorithm, last.decrypt,
                                       last.key)
        IN  /\ Len(last.stages) <= Len(full)
            /\ last.stages = SubSeq(full, 1, Len(last.stages))
            /\ last.ret <=> (last.joined /\ last.combined # <<>> /\ d.ok)
            /\ ~last.ret =>
                  /\ outFile = last.outBefore
                  /\ dirs = last.dirsBefore
                  /\ "write" \notin Range(last.stages)
            /\ last.ret =>
                  /\ last.stages = full
                  /\ outFile = FileOf(Utf8Encode(TranslateNewlines(d.val, linesep)))
                  /\ OutDir \in dirs

C18_Witness ==
    /\ last.op = "restore"
    /\ ~last.ret
    /\ last.log = "UTF-8 error"
    /\ last.stages = <<"join", "b64decode", "decompress", "utf8">>
    /\ outFile = NoFile
    /\ OutDir \notin dirs

\* C19: an empty input is rejected and writes nothing: encoding a zero-byte
\* file gives no encoded text and no chunk; splitting an empty text returns
\* False and creates no chunk; a restore whose joined text is empty or only
\* whitespace returns False and writes no output file.
C19_EmptyInput ==
    /\ (last.op = "encode" /\ last.file.exists /\ last.file.bytes = <<>>) =>
          /\ ~last.encodedOk
          /\ last.encoded = <<>>
          /\ ~last.ret
          /\ chunks = last.before
          /\ dirs = last.dirsBefore
    /\ (last.op = "split" /\ last.text = <<>>) =>
          /\ ~last.ret
          /\ last.written = 0
          /\ chunks = last.before
          /\ dirs = last.dirsBefore
    /\ (last.op = "restore" /\ IsBlank(last.combined)) =>
          /\ ~last.ret
          /\ last.stages = <<"join">>
          /\ outFile = last.outBefore
          /\ dirs = last.dirsBefore

C19_Witness ==
    /\ last.op = "restore"
    /\ last.joined
    /\ last.reads # <<>>
    /\ last.combined = <<>>
    /\ ~last.ret
    /\ outFile = NoFile

\* C20: with an algorithm name outside zlib, lzma, brotli the encode gives no
\* encoded text, runs no encryption or base64 stage and writes no chunk; the
\* restore returns False, runs no decompression and writes no output file.
C20_UnsupportedAlgorithm ==
    /\ (last.op = "encode" /\ last.algorithm \notin Algorithms) =>
          /\ ~last.encodedOk
          /\ last.encoded = <<>>
          /\ Range(last.stages) \cap {"encrypt", "b64encode", "split"} = {}
          /\ ~last.ret
          /\ chunks = last.before
          /\ dirs = last.dirsBefore
    /\ (last.op = "restore" /\ last.algorithm \notin Algorithms) =>
          /\ ~last.ret
          /\ Range(last.stages) \cap {"decompress", "utf8", "write"} = {}
          /\ outFile = last.outBefore
          /\ dirs = last.dirsBefore

C20_Witness ==
    /\ last.op = "restore"
    /\ last.algorithm \notin Algorithms
    /\ last.after.op = "encode"
    /\ last.after.ret
    /\ last.after.algorithm = "zlib"
    /\ ~last.after.encrypt
    /\ ~last.decrypt
    /\ last.log = "unsupported algorithm"

IsPrefix(a, b) == Len(a) <= Len(b) /\ a = SubSeq(b, 1, Len(a))

EncodeOrder(encrypt) ==
    <<"compress">> \o (IF encrypt THEN <<"encrypt">> ELSE <<>>)
    \o <<"b64encode", "split">>

\* the encoded text, stage by stage, from the inputs of an encode
ExpectedEncoded(l) ==
    b64encode(IF l.encrypt
              THEN aes_encrypt(Compress(l.algorithm, l.file.bytes, l.compression).val,
                               l.key, "ctr", Nonce1)
              ELSE Compress(l.algorithm, l.file.bytes, l.compression).val)

DecryptedOf(l, decoded_bytes) ==
    IF l.decrypt
    THEN aes_decrypt([type |-> "bytes", v |-> decoded_bytes], l.key).val
    ELSE decoded_bytes

\* the restored text, stage by stage, from the joined text of a restore
ExpectedText(l) ==
    Utf8Decode(Decompress(l.algorithm,
                          DecryptedOf(l, b64decode(Utf8Encode(l.combined)).val)).val).val

\* C21: an encode runs compress, then encrypt on the compressed blob only if
\* requested, then base64, then split, once each in that order; a restore runs
\* join, base64 decode, decrypt only if requested, decompress, in that order,
\* and what each pipeline produces is the composition of its stages.
C21_StageOrder ==
    /\ last.op = "encode" =>
          /\ IsPrefix(last.stages, EncodeOrder(last.encrypt))
          /\ last.encodedOk =>
                /\ last.stages = EncodeOrder(last.encrypt)
                /\ last.encoded = ExpectedEncoded(last)
                /\ last.ret
                /\ Concat(chunks, 0, last.written) = last.encoded
    /\ last.op = "restore" =>
          /\ IsPrefix(last.stages, FullOrder(last.decrypt))
          /\ ("decrypt" \in Range(last.stages) => last.decrypt)
          /\ last.ret =>
                /\ last.stages = FullOrder(last.decrypt)
                /\ last.combined = Concat(chunks, 0, Len(last.reads))
                /\ outFile = FileOf(Utf8Encode(TranslateNewlines(ExpectedText(last),
                                                                 linesep)))

C21_Witness ==
    /\ last.op = "restore"
    /\ last.ret
    /\ last.decrypt
    /\ last.after.op = "encode"
    /\ last.after.encrypt
    /\ last.after.stages = <<"compress", "encrypt", "b64encode", "split">>
    /\ last.stages = <<"join", "b64decode", "decrypt", "decompress", "utf8", "write">>

\* C22 as stated: for every data, key and mode, aes_decrypt of what
\* aes_encrypt returned, with the same key, returns the data.
C22_AutoDetect ==
    (IsEncryptThenDecrypt /\ last.key = last.after.key) =>
        (last.res.ok /\ last.res.val = last.after.data)

\* C23: for every ciphertext of at least 16 bytes and every key the
\* counter-mode trial does not raise: it is the only trial, its output is
\* what aes_decrypt returns, and no error is raised.
C23_DeadFallbacks ==
    (last.op = "aes_decrypt" /\ last.encrypted_data.type = "bytes"
     /\ Len(last.encrypted_data.v) >= 16) =>
        /\ Len(last.res.attempts) = 1
        /\ last.res.attempts[1].mode = "ctr"
        /\ ~last.res.attempts[1].raised
        /\ last.res.ok
        /\ last.res.err = "none"
        /\ last.res.val = CtrCrypt(last.key_bytes, Slice(last.encrypted_data.v, 0, 16),
                                   Slice(last.encrypted_data.v, 16,
                                         Len(last.encrypted_data.v)))

C23_Witness ==
    /\ IsEncryptThenDecrypt
    /\ last.after.mode = "cbc"
    /\ last.key_bytes # last.after.key_bytes
    /\ Len(last.encrypted_data.v) = 32
    /\ Len(last.res.attempts) = 1
    /\ last.res.ok
    /\ last.res.val # last.after.data

\* smallest index from m on with no file
RECURSIVE StaleEnd(_, _)
StaleEnd(fs, m) == IF m \notin DOMAIN fs THEN m ELSE StaleEnd(fs, m + 1)

\* C24: a successful split that writes m chunks leaves every chunk file with
\* an index of m or more as it was, and the following join returns the new
\* text followed by the old chunks m, m+1, ... up to the first absent index.
C24_StaleChunks ==
    /\ (last.op = "split" /\ last.ret) =>
          \A i \in DOMAIN last.before :
              i >= last.written => (i \in DOMAIN chunks /\ chunks[i] = last.before[i])
    /\ (last.op = "restore" /\ last.after.op = "split" /\ last.after.ret) =>
          /\ last.joined
          /\ last.combined =
               last.after.text
               \o Concat(last.after.before, last.after.written,
                         StaleEnd(last.after.before, last.after.written))

C24_Witness ==
    /\ last.op = "restore"
    /\ last.after.op = "split"
    /\ last.after.ret
    /\ last.after.written = 1
    /\ DOMAIN last.after.before = {0, 1}
    /\ last.joined
    /\ last.combined = last.after.text \o last.after.before[1]
    /\ last.combined # last.after.text

\* C29: when the write of chunk i > 0 fails, the split returns False and the
\* chunks 0..i-1 it has written stay in place with their pieces; the following
\* join reads them without an error and returns that truncated prefix.
C29_NoRollback ==
    /\ (last.op = "split_io_error" /\ last.failAt > 0) =>
          /\ ~last.ret
          /\ last.log = "write error"
          /\ last.written = last.failAt
          /\ Touched(last.before, chunks) \subseteq 0..(last.failAt - 1)
          /\ \A i \in 0..(last.failAt - 1) :
                /\ i \in DOMAIN chunks
                /\ chunks[i] = Slice(last.text, i * last.chunk_size,
                                     (i + 1) * last.chunk_size)
    /\ (last.op = "restore" /\ last.after.op = "split_io_error"
        /\ last.after.failAt > 0 /\ last.after.before = EmptyFs) =>
          /\ last.joined
          /\ last.log # "no chunks found"
          /\ last.reads = [i \in 1..last.after.failAt |-> i - 1]
          /\ last.combined = Slice(last.after.text, 0,
                                   last.after.failAt * last.after.chunk_size)
          /\ last.combined # last.after.text

C29_Witness ==
    /\ last.op = "restore"
    /\ last.after.op = "split_io_error"
    /\ last.after.failAt = 1
    /\ last.after.before = EmptyFs
    /\ ~last.after.ret
    /\ Len(last.after.text) = 3
    /\ last.joined
    /\ last.combined = Slice(last.after.text, 0, last.after.chunk_size)

IsRestoreOfEncoded ==
    /\ last.op = "restore"
    /\ last.after.op = "encode"
    /\ last.after.ret
    /\ last.combined = last.after.encoded

DecompressedOf(l) ==
    Decompress(l.algorithm, DecryptedOf(l, b64decode(Utf8Encode(l.combined)).val))

\* C26: a restore succeeds only when the decompressed bytes are valid UTF-8;
\* restoring the correctly encoded chunks of a file whose bytes are not valid
\* UTF-8, with the same algorithm, flag and key, fails at the UTF-8 decoding
\* and writes no output file.
C26_Utf8Only ==
    /\ (last.op = "restore" /\ last.ret) =>
          (DecompressedOf(last).ok /\ Utf8Decode(DecompressedOf(last).val).ok)
    /\ (IsRestoreOfEncoded /\ last.algorithm = last.after.algorithm
        /\ last.decrypt = last.after.encrypt /\ last.key = last.after.key
        /\ ~Utf8Decode(last.after.file.bytes).ok) =>
          /\ ~last.ret
          /\ last.log = "UTF-8 error"
          /\ last.stages = SubSeq(FullOrder(last.decrypt), 1,
                                  Len(FullOrder(last.decrypt)) - 1)
          /\ outFile = last.outBefore
          /\ dirs = last.dirsBefore

C26_Witness ==
    /\ IsRestoreOfEncoded
    /\ last.after.file.bytes = <<255>>
    /\ last.after.encrypt
    /\ last.decrypt
    /\ last.algorithm = last.after.algorithm
    /\ last.key = last.after.key
    /\ last.log = "UTF-8 error"
    /\ outFile = NoFile

CompressedOf(l) == Compress(l.algorithm, l.file.bytes, l.compression).val

\* C28: an encode with encryption always encrypts in counter mode: the bytes
\* its text decodes to are the 16-byte nonce followed by the counter-mode
\* encryption of the compressed blob, compressed length + 16 in all (the text
\* is the base64 length of that many bytes), and on
\* restore the first trial of aes_decrypt, counter mode, is the one that
\* returns.
C28_AlwaysCtr ==
    /\ (last.op = "encode" /\ last.encrypt /\ last.encodedOk) =>
          LET ct == b64decode(Utf8Encode(last.encoded))
          IN  /\ Len(last.encoded) = 4 * ((Len(CompressedOf(last)) + 16 + 2) \div 3)
              /\ ct.ok
              /\ Len(ct.val) = Len(CompressedOf(last)) + 16
              /\ Slice(ct.val, 0, 16) = Nonce1
              /\ Slice(ct.val, 16, Len(ct.val))
                   = CtrCrypt(KeyBytes(last.key), Nonce1, CompressedOf(last))
    /\ (IsRestoreOfEncoded /\ last.after.encrypt /\ last.decrypt) =>
          LET a == aes_decrypt([type |-> "bytes",
                                v |-> b64decode(Utf8Encode(last.combined)).val],
                               last.key)
          IN  /\ Len(a.attempts) = 1
              /\ a.attempts[1].mode = "ctr"
              /\ ~a.attempts[1].raised
              /\ (last.key = last.after.key => a.val = CompressedOf(last.after))

C28_Witness ==
    /\ IsRestoreOfEncoded
    /\ last.after.encrypt
    /\ last.decrypt
    /\ last.key = last.after.key
    /\ last.algorithm = last.after.algorithm
    /\ last.ret

\* the bytes the joined text of a restore decodes to
CipherOf(l) == b64decode(Utf8Encode(l.combined))

IsCliEncode == last.op = "encode" /\ last.args.cli

\* encode with the default flags, then decode with the default flags
IsCliDefaultRoundTrip ==
    /\ last.op = "restore"
    /\ last.after.op = "encode"
    /\ last.after.args.cli
    /\ ~last.after.args.no_encrypt
    /\ last.after.file.exists
    /\ last.algorithm = CliAlgorithm
    /\ last.key = CliKey
    /\ last.decrypt

\* the file is text that the decoder's UTF-8 and newline handling leave alone
IsPlainText(bytes) ==
    /\ Utf8Decode(bytes).ok
    /\ TranslateNewlines(bytes, linesep) = bytes

\* without --no-encrypt the size never switches encryption off
CliEncryptionStaysOn ==
    /\ (last.op = "should_encrypt_file" /\ last.force_encrypt) => last.ret
    /\ (IsCliEncode /\ ~last.args.no_encrypt) =>
          /\ last.encrypt
          /\ last.args.decision.enabled
          /\ FileSize(last.file) > 0 =>
                /\ last.args.decision.called
                /\ last.args.decision.force
                /\ last.args.decision.returned
    /\ (IsCliEncode /\ last.args.no_encrypt) =>
          (~last.encrypt /\ ~last.args.decision.called)

WriterSplits ==
    /\ writer.pc # "idle"
    /\ writer.text # <<>>
    /\ writer.chunk_size > 0

NumChunks(T, chunk_size) == (Len(T) + chunk_size - 1) \div chunk_size

\* c is made, in order, of the pieces k .. n-1 of T, each whole or still empty
RECURSIVE MadeOfPieces(_, _, _, _, _)
MadeOfPieces(c, T, chunk_size, k, n) ==
    IF k >= n THEN c = <<>>
    ELSE \/ MadeOfPieces(c, T, chunk_size, k + 1, n)
         \/ /\ IsPrefix(Slice(T, k * chunk_size, (k + 1) * chunk_size), c)
            /\ MadeOfPieces(Slice(c, Min(chunk_size, Len(T) - k * chunk_size), Len(c)),
                            T, chunk_size, k + 1, n)

\* C25: nothing excludes a join from a split running on the same base name:
\* a join that finishes while or after a split of T wrote onto the empty base
\* name has read the chunk files 0 .. n-1 that existed when it looked, each
\* either whole or just created and still empty, and the join reports an error
\* only when it read no text, so that it can return a strict non-empty prefix
\* of T without error.
C25_NoExclusion ==
    (reader.pc = "done" /\ WriterSplits) =>
        /\ Len(reader.reads) <= NumChunks(writer.text, writer.chunk_size)
        /\ \A k \in 1..Len(reader.reads) : reader.reads[k] = k - 1
        /\ MadeOfPieces(reader.combined, writer.text, writer.chunk_size, 0,
                        Len(reader.reads))
        /\ reader.joined = (reader.reads # <<>>)
        /\ (reader.log \in {"no chunks found", "empty chunks"}) = (reader.combined = <<>>)

C25_Witness ==
    /\ reader.pc = "done"
    /\ WriterSplits
    /\ NumChunks(writer.text, writer.chunk_size) > 1
    /\ reader.joined
    /\ reader.log \notin {"no chunks found", "empty chunks"}
    /\ reader.combined # <<>>
    /\ reader.combined # writer.text
    /\ IsPrefix(reader.combined, writer.text)

====
